---- MODULE Spec2Model ----
(***************************************************************************)
(* Model of src/main.py: the fetch -> crop -> assemble script.             *)
(*                                                                         *)
(* Strings that the code takes apart (URLs, file names) are sequences of   *)
(* one-character strings, so that split, lower, endswith, the f-string and *)
(* sorted are computed as Python computes them.  The network, the file     *)
(* system contents, the image decoder and the video encoder are the        *)
(* environment: their outcomes are chosen nondeterministically.            *)
(***************************************************************************)
EXTENDS Integers, Sequences, FiniteSets, TLC

\* ------------------------------------------------------------------ bounds
MaxPhotos == 3        \* results in one metadata response
MaxFiles == 3         \* files in a folder handed to crop_images_to_reel_format
MaxReelFiles == 5     \* files in a folder handed to create_reel_from_images
MaxDim == 8           \* source width and height range over 1..MaxDim
MaxAspect == 3        \* aspect_ratio components range over 1..MaxAspect
MaxDuration == 3      \* requested durations range over 1..MaxDuration

\* ------------------------------------------------- program constants
DURATION == 20
ASPECT_W == 9
ASPECT_H == 16
OUT_W == 1080
OUT_H == 1920
ENCODE_FPS == 24
IMAGE_EXTS == << <<".", "j", "p", "g">>, <<".", "j", "p", "e", "g">>, <<".", "p", "n", "g">> >>

\* ------------------------------------------------------- Python strings
\* The characters the model uses, in code point order.
CodePoints ==
  << ".", "/", "0", "1", "2", "3", "4", "5", "6", "7", "8", "9",
     "A", "B", "C", "D", "E", "F", "G", "H", "I", "J", "K", "L", "M",
     "N", "O", "P", "Q", "R", "S", "T", "U", "V", "W", "X", "Y", "Z",
     "a", "b", "c", "d", "e", "f", "g", "h", "i", "j", "k", "l", "m",
     "n", "o", "p", "q", "r", "s", "t", "u", "v", "w", "x", "y", "z" >>

Ord(c) == CHOOSE i \in DOMAIN CodePoints : CodePoints[i] = c

\* str.lower() on one character, then on a string
LowerChar(c) == IF Ord(c) \in 13..38 THEN CodePoints[Ord(c) + 26] ELSE c

Lower(s) == [i \in DOMAIN s |-> LowerChar(s[i])]

\* s.endswith(suf)
EndsWith(s, suf) ==
  /\ Len(suf) <= Len(s)
  /\ SubSeq(s, Len(s) - Len(suf) + 1, Len(s)) = suf

\* s.split(".")[-1]: the text after the last "." (all of s when it has none)
RECURSIVE LastSegment(_)
LastSegment(s) ==
  IF s = <<>> THEN <<>>
  ELSE IF s[Len(s)] = "." THEN <<>>
  ELSE Append(LastSegment(SubSeq(s, 1, Len(s) - 1)), s[Len(s)])

\* str(n) for n >= 0, as the f-string formats the id
Digit(d) == CodePoints[d + 3]

RECURSIVE IntToStr(_)
IntToStr(n) == IF n < 10 THEN <<Digit(n)>> ELSE Append(IntToStr(n \div 10), Digit(n % 10))

\* Python's < on strings: by code point, a proper prefix first
RECURSIVE StrLess(_, _)
StrLess(a, b) ==
  IF b = <<>> THEN FALSE
  ELSE IF a = <<>> THEN TRUE
  ELSE IF a[1] = b[1] THEN StrLess(Tail(a), Tail(b))
  ELSE Ord(a[1]) < Ord(b[1])

\* sorted(list): insertion of each element into the sorted prefix
RECURSIVE InsertSorted(_, _)
InsertSorted(x, s) ==
  IF s = <<>> THEN <<x>>
  ELSE IF StrLess(x, s[1]) THEN <<x>> \o s
  ELSE <<s[1]>> \o InsertSorted(x, Tail(s))

RECURSIVE Sorted(_)
Sorted(s) == IF s = <<>> THEN <<>> ELSE InsertSorted(s[Len(s)], Sorted(SubSeq(s, 1, Len(s) - 1)))

\* file_name.lower().endswith((".jpg", ".jpeg", ".png"))
IsImageName(file_name) == \E k \in DOMAIN IMAGE_EXTS : EndsWith(Lower(file_name), IMAGE_EXTS[k])

\* Variant: the text after the first "." (split(".", 1)[-1])
RECURSIVE AfterFirstDot(_)
AfterFirstDot(s) ==
  IF s = <<>> THEN <<>>
  ELSE IF s[1] = "." THEN Tail(s)
  ELSE AfterFirstDot(Tail(s))

\* Variant of FileNameOf: the extension taken after the first "." of the URL
FileNameOf_FirstDot(image_id, image_url) ==
  IntToStr(image_id) \o <<".">> \o AfterFirstDot(image_url)

\* f"{image_id}.{file_extension}" with file_extension = image_url.split(".")[-1]
FileNameOf(image_id, image_url) == IntToStr(image_id) \o <<".">> \o LastSegment(image_url)

\* os.listdir: the names of a directory in any order
RECURSIVE Orders(_)
Orders(names) ==
  IF names = {} THEN {<<>>}
  ELSE UNION {{<<x>> \o rest : rest \in Orders(names \ {x})} : x \in names}

Listings(dir) == Orders(DOMAIN dir)


\* -------------------------------------------------------- the environment
\* What the photo API can return as src.original: nothing, or the URL of an
\* image asset.  <<>> stands for a missing or empty URL.
NoUrl == <<>>
UrlJpg == <<"h", ".", "i", "o", "/", "a", ".", "j", "p", "g">>
UrlPng == <<"h", ".", "i", "o", "/", "b", ".", "P", "N", "G">>
UrlGif == <<"h", ".", "i", "o", "/", "c", ".", "g", "i", "f">>
Urls == {NoUrl, UrlJpg, UrlPng, UrlGif}

\* The remote id of the k-th result of a page: distinct ids, not in file name order
\* ("10..." sorts before "9...").
IdAt(k) == 11 - k

Photo(k, url) == [id |-> IdAt(k), src |-> url]

\* A metadata response: up to MaxPhotos results
PhotoLists ==
  UNION {{[k \in 1..n |-> Photo(k, u[k])] : u \in [1..n -> Urls]} : n \in 0..MaxPhotos}

\* What a file holds: a decodable image of some size, bytes that are no image,
\* or the truncated start of a download.
Image(w, h) == [kind |-> "image", w |-> w, h |-> h]
Garbage == [kind |-> "garbage", w |-> 0, h |-> 0]
Partial == [kind |-> "partial", w |-> 0, h |-> 0]
ServedBodies == {Image(8, 3)}

NoError == [at |-> -1, kind |-> "none"]
NoBox == [done |-> FALSE, width |-> 0, height |-> 0, aw |-> 0, ah |-> 0,
          target_width |-> 0, target_height |-> 0,
          left2 |-> 0, top2 |-> 0, right2 |-> 0, bottom2 |-> 0]
NoClip == [made |-> FALSE, images |-> <<>>, fps_num |-> 0, fps_den |-> 0]
EmptyDir == <<>>

VARIABLES
  pc,           \* where the script is: fetch, download, crop, cropping, assemble, encode, done, crashed
  stages,       \* the stage functions entered so far, in order
  uncaught,     \* the exception that ended the script, "" if none
  photos,       \* fetch: the results of the metadata response
  idx,          \* fetch: position in photos of the loop at line 50
  requests,     \* fetch: the HTTP requests made, 0 for the search, k for the image of result k
  fetchErr,     \* fetch: the RequestException caught at line 67 (at: its request)
  written,      \* fetch: the file names whose download completed, in order
  saveExists,   \* the download directory exists
  saveFiles,    \* the download directory: file name -> content
  aspect_ratio, \* crop: the aspect_ratio argument
  antialias,    \* the installed PIL has Image.ANTIALIAS (Pillow < 10) or not (Pillow >= 10)
  cropExists,   \* the cropped directory exists
  cropFiles,    \* the cropped directory: file name -> content
  listing,      \* crop: what os.listdir returned at line 82
  j,            \* crop: position in listing
  opened,       \* crop: the files handed to Image.open
  failed,       \* crop: the files whose processing raised (line 105)
  box,          \* crop: the last crop region computed (lines 87-98)
  duration,     \* assemble: the duration argument
  images,       \* assemble: the list built at lines 117-120
  clip,         \* assemble: what was handed to ImageSequenceClip
  video         \* assemble: the output video file was written

vars == <<pc, stages, uncaught, photos, idx, requests, fetchErr, written, saveExists,
          saveFiles, aspect_ratio, antialias, cropExists, cropFiles, listing, j,
          opened, failed, box, duration, images, clip, video>>

fetchVars == <<photos, idx, requests, fetchErr, written, saveExists, saveFiles>>
cropVars == <<cropExists, cropFiles, listing, j, opened, failed, box>>
reelVars == <<images, clip, video>>
paramVars == <<aspect_ratio, antialias, duration>>

\* ------------------------------------------------------------- the script
\* Lines 134-146: the parameters are the module constants; the two directories
\* are absent (first run) or left, here empty, by an earlier run that created
\* both; PIL is whichever version is installed.
Fresh ==
  /\ stages = <<>>
  /\ uncaught = ""
  /\ photos = <<>>
  /\ idx = 0
  /\ requests = <<>>
  /\ fetchErr = NoError
  /\ written = <<>>
  /\ listing = <<>>
  /\ j = 0
  /\ opened = {}
  /\ failed = {}
  /\ images = <<>>
  /\ clip = NoClip
  /\ video = FALSE

Init ==
  /\ pc = "fetch"
  /\ Fresh
  /\ saveExists \in BOOLEAN
  /\ saveFiles = EmptyDir
  /\ cropExists = saveExists
  /\ cropFiles = EmptyDir
  /\ aspect_ratio = <<ASPECT_W, ASPECT_H>>
  /\ antialias \in BOOLEAN
  /\ duration = DURATION
  /\ box = NoBox

\* ---------------------------------------------- fetch_images_from_pexels
\* Lines 18-47: create the folder, make the search request, read the results.
\* A failed request (connection error, bad status) is caught at line 67.
FetchSearch ==
  /\ pc = "fetch"
  /\ stages' = Append(stages, "fetch")
  /\ saveExists' = TRUE
  /\ requests' = Append(requests, 0)
  /\ \/ \E kind \in {"conn", "status"} :
          /\ fetchErr' = [at |-> 0, kind |-> kind]
          /\ photos' = <<>>
          /\ idx' = idx
          /\ pc' = "crop"
     \/ \E ps \in PhotoLists :
          /\ photos' = ps
          /\ fetchErr' = fetchErr
          /\ idx' = IF ps = <<>> THEN idx ELSE 1
          /\ pc' = IF ps = <<>> THEN "crop" ELSE "download"
  /\ UNCHANGED <<uncaught, written, saveFiles>>
  /\ UNCHANGED <<cropVars, reelVars, paramVars>>

\* Line 67: the except clause names requests.exceptions.RequestException, which
\* the connection, status and streaming errors are and an OSError is not.
CaughtByFetch(exc) == exc \in {"conn", "status", "midstream"}

\* Variant of ErrorLeaves: the file opened before the request is made
ErrorLeaves_OpenFirst(exc, file_name, files) == (file_name :> [kind |-> "partial", w |-> 0, h |-> 0]) @@ files

\* Lines 59-63: what an error leaves in the folder.  The file is opened only
\* after the status check, so only an error while the body is streamed finds it
\* already created, and leaves it truncated.
ErrorLeaves(exc, file_name, files) ==
  IF exc = "midstream" THEN (file_name :> Partial) @@ files ELSE files

\* Lines 50-65, one iteration: a result without a URL is passed over; otherwise
\* the image is requested (line 59), its status checked (line 60), the file
\* opened (line 61) and the body streamed into it (lines 62-63).
\*   conn, status: RequestException before the file is opened
\*   oserror:      open() raises OSError (folder not writable, disk full)
\*   midstream:    RequestException from iter_content
\* A caught error ends the function (lines 67-68); another one ends the script.
DownloadPhoto ==
  /\ pc = "download"
  /\ LET photo == photos[idx]
         image_url == photo.src
         file_name == FileNameOf(photo.id, image_url)
         after == IF idx = Len(photos) THEN "crop" ELSE "download"
     IN IF image_url = NoUrl
        THEN /\ idx' = idx + 1
             /\ pc' = after
             /\ UNCHANGED <<requests, fetchErr, written, saveFiles, uncaught>>
        ELSE /\ requests' = Append(requests, idx)
             /\ \/ \E exc \in {"conn", "status", "oserror", "midstream"} :
                     /\ saveFiles' = ErrorLeaves(exc, file_name, saveFiles)
                     /\ IF CaughtByFetch(exc)
                        THEN /\ fetchErr' = [at |-> idx, kind |-> exc]
                             /\ pc' = "crop"
                             /\ UNCHANGED uncaught
                        ELSE /\ uncaught' = "OSError"
                             /\ pc' = "crashed"
                             /\ UNCHANGED fetchErr
                     /\ UNCHANGED <<idx, written>>
                \/ \E body \in ServedBodies :
                     /\ saveFiles' = (file_name :> body) @@ saveFiles
                     /\ written' = Append(written, file_name)
                     /\ idx' = idx + 1
                     /\ pc' = after
                     /\ UNCHANGED <<fetchErr, uncaught>>
  /\ UNCHANGED <<stages, photos, saveExists>>
  /\ UNCHANGED <<cropVars, reelVars, paramVars>>

\* -------------------------------------------- crop_images_to_reel_format
\* Variant of CropBox: no fall back to the full height (lines 91-93 left out)
CropBox_NoFallback(width, height, aw, ah) ==
  LET target_width == width
      target_height == (width * ah) \div aw
      left2 == width - target_width
      top2 == height - target_height
  IN [done |-> TRUE, width |-> width, height |-> height, aw |-> aw, ah |-> ah,
      target_width |-> target_width, target_height |-> target_height,
      left2 |-> left2, top2 |-> top2,
      right2 |-> left2 + 2 * target_width, bottom2 |-> top2 + 2 * target_height]

\* Variant of CropBox: the margins not halved (left = width - target_width)
CropBox_NoHalf(width, height, aw, ah) ==
  LET full_height == (width * ah) \div aw
      fallback == full_height > height
      target_width == IF fallback THEN (height * aw) \div ah ELSE width
      target_height == IF fallback THEN height ELSE full_height
      left2 == 2 * (width - target_width)
      top2 == 2 * (height - target_height)
  IN [done |-> TRUE, width |-> width, height |-> height, aw |-> aw, ah |-> ah,
      target_width |-> target_width, target_height |-> target_height,
      left2 |-> left2, top2 |-> top2,
      right2 |-> left2 + 2 * target_width, bottom2 |-> top2 + 2 * target_height]

\* Lines 87-98: the crop region of a width x height image for the ratio aw:ah.
\* int(x * a / b) is the floor of the quotient for the positive integers the
\* model draws.  left and top are halves of integers in the code (a true
\* division by 2): the model keeps twice their value, in left2 .. bottom2.
CropBox(width, height, aw, ah) ==
  LET full_height == (width * ah) \div aw
      fallback == full_height > height
      target_width == IF fallback THEN (height * aw) \div ah ELSE width
      target_height == IF fallback THEN height ELSE full_height
      left2 == width - target_width
      top2 == height - target_height
  IN [done |-> TRUE, width |-> width, height |-> height, aw |-> aw, ah |-> ah,
      target_width |-> target_width, target_height |-> target_height,
      left2 |-> left2, top2 |-> top2,
      right2 |-> left2 + 2 * target_width, bottom2 |-> top2 + 2 * target_height]

\* Line 101: what resize((1080, 1920), ...) returns
Resized == Image(OUT_W, OUT_H)

\* Line 103: the name the cropped image is saved under
SavedName(file_name) == file_name

\* Variant of NextCropPc: the try around the loop, an exception ends it
NextCropPc_Abort(raised, last) == IF raised \/ last THEN "assemble" ELSE "cropping"

\* Lines 82-106: the try is inside the loop, so the loop goes on to the next
\* file whether or not this one raised, and ends after the last.
NextCropPc(raised, last) == IF last THEN "assemble" ELSE "cropping"

\* Lines 79-82: create the output folder and list the source folder.
CropListDir ==
  /\ pc = "crop"
  /\ stages' = Append(stages, "crop")
  /\ cropExists' = TRUE
  /\ IF saveExists
     THEN /\ \E l \in Listings(saveFiles) :
               /\ listing' = l
               /\ j' = 1
               /\ pc' = IF l = <<>> THEN "assemble" ELSE "cropping"
          /\ UNCHANGED uncaught
     ELSE /\ uncaught' = "FileNotFoundError"
          /\ pc' = "crashed"
          /\ UNCHANGED <<listing, j>>
  /\ UNCHANGED <<cropFiles, opened, failed, box>>
  /\ UNCHANGED <<fetchVars, reelVars, paramVars>>

\* Lines 83-106, one iteration.  A name outside the allowlist is passed over.
\* Otherwise the file is opened; a file that is no image raises at line 86; the
\* lookup of Image.ANTIALIAS at line 101 raises where PIL no longer has it; every
\* exception is caught at line 105 and the loop goes on.
CropFile ==
  /\ pc = "cropping"
  /\ LET file_name == listing[j]
         content == saveFiles[file_name]
         raises == IsImageName(file_name) /\ (content.kind # "image" \/ ~antialias)
     IN /\ IF ~IsImageName(file_name)
           THEN UNCHANGED <<cropFiles, opened, failed, box>>
           ELSE /\ opened' = opened \cup {file_name}
                /\ failed' = IF raises THEN failed \cup {file_name} ELSE failed
                /\ box' = IF content.kind = "image"
                          THEN CropBox(content.w, content.h, aspect_ratio[1], aspect_ratio[2])
                          ELSE box
                /\ cropFiles' = IF raises THEN cropFiles
                                ELSE (SavedName(file_name) :> Resized) @@ cropFiles
        /\ pc' = NextCropPc(raises, j = Len(listing))
  /\ j' = j + 1
  /\ UNCHANGED <<stages, uncaught, cropExists, listing>>
  /\ UNCHANGED <<fetchVars, reelVars, paramVars>>

\* ------------------------------------------------ create_reel_from_images
\* Variant of Collect: the listing taken in the order os.listdir gives it
Collect_Unsorted(l) == SelectSeq(l, IsImageName)

\* Lines 117-120: the allowlisted names of sorted(os.listdir(folder)), each
\* joined to the folder (the same prefix for all: the name stands for the path).
Collect(l) == SelectSeq(Sorted(l), IsImageName)

\* Variant of ClipOf: fps = duration / len(images)
ClipOf_Inverted(imgs, d) ==
  [made |-> TRUE, images |-> imgs, fps_num |-> d, fps_den |-> Len(imgs)]

\* Line 127: fps = len(images) / duration, kept as the fraction fps_num / fps_den
ClipOf(imgs, d) ==
  [made |-> TRUE, images |-> imgs, fps_num |-> Len(imgs), fps_den |-> d]

\* Variant of AfterCollect: the check for an empty list left out
AfterCollect_NoCheck(imgs) == "encode"

\* Lines 122-124: with no image, report and return; otherwise go on to encode.
AfterCollect(imgs) == IF imgs = <<>> THEN "done" ELSE "encode"

\* Lines 117-124: collect the images.
ReelCollect ==
  /\ pc = "assemble"
  /\ stages' = Append(stages, "assemble")
  /\ IF cropExists
     THEN /\ \E l \in Listings(cropFiles) :
               /\ images' = Collect(l)
               /\ pc' = AfterCollect(Collect(l))
          /\ UNCHANGED uncaught
     ELSE /\ uncaught' = "FileNotFoundError"
          /\ pc' = "crashed"
          /\ UNCHANGED images
  /\ UNCHANGED <<clip, video>>
  /\ UNCHANGED <<fetchVars, cropVars, paramVars>>

\* Lines 126-131: build the clip and encode it; an encoder failure is caught.
ReelEncode ==
  /\ pc = "encode"
  /\ clip' = ClipOf(images, duration)
  /\ \E encoded \in BOOLEAN : video' = encoded
  /\ pc' = "done"
  /\ UNCHANGED <<stages, uncaught, images>>
  /\ UNCHANGED <<fetchVars, cropVars, paramVars>>

\* The clip as the encoder plays it (lines 127-128): ImageSequenceClip holds
\* each image for 1/fps seconds, and write_videofile(fps=24) writes one frame
\* for every t = k/24 below the clip's duration, len(images)/fps.
\* Frames(c): the number of frames written, the ceiling of 24 * n * den / num.
Frames(c) ==
  LET total == ENCODE_FPS * Len(c.images) * c.fps_den
  IN (total + c.fps_num - 1) \div c.fps_num

\* The image frame k (at t = k/24) shows: floor(t * fps), counted from 1
ImageAt(c, k) == ((k * c.fps_num) \div (ENCODE_FPS * c.fps_den)) + 1

\* The number of frames that show image i
FramesOf(c, i) == Cardinality({k \in 0..(Frames(c) - 1) : ImageAt(c, k) = i})

Next == FetchSearch \/ DownloadPhoto \/ CropListDir \/ CropFile \/ ReelCollect \/ ReelEncode

Spec == Init /\ [][Next]_vars


\* -------------------------------------- the functions on their own inputs
\* A directory: up to max files with names and contents from the given sets
Dirs(names, contents, max) ==
  UNION {[S -> contents] : S \in {T \in SUBSET names : Cardinality(T) <= max}}

NameJpg == <<"1", "0", ".", "j", "p", "g">>
NameJpeg == <<"9", ".", "J", "P", "E", "G">>
NamePng == <<"9", ".", "p", "n", "g">>
NameJpegLow == <<"8", ".", "j", "p", "e", "g">>
NamePngUp == <<"1", "1", ".", "P", "N", "G">>
NameGif == <<"7", ".", "g", "i", "f">>
NameBare == <<"j", "p", "g">>

\* crop_images_to_reel_format(folder, output_folder) called on any folder of
\* images, broken files and other files, the output folder not yet there.
InitCrop ==
  /\ pc = "crop"
  /\ Fresh
  /\ saveExists = TRUE
  /\ saveFiles \in Dirs({NameJpg, NameJpeg, NameGif, NameBare},
                        {Image(8, 3), Image(3, 8), Garbage}, MaxFiles)
  /\ cropExists = FALSE
  /\ cropFiles = EmptyDir
  /\ aspect_ratio = <<ASPECT_W, ASPECT_H>>
  /\ antialias \in BOOLEAN
  /\ duration = DURATION
  /\ box = NoBox

NextCrop == CropListDir \/ CropFile

SpecCrop == InitCrop /\ [][NextCrop]_vars

\* create_reel_from_images(folder, output_video, duration) called on any folder
\* and any positive duration.
InitReel ==
  /\ pc = "assemble"
  /\ Fresh
  /\ saveExists = TRUE
  /\ saveFiles = EmptyDir
  /\ cropExists = TRUE
  /\ cropFiles \in Dirs({NameJpg, NameJpeg, NamePng, NameJpegLow, NamePngUp, NameGif},
                        {Resized}, MaxReelFiles)
  /\ aspect_ratio = <<ASPECT_W, ASPECT_H>>
  /\ antialias = TRUE
  /\ duration \in 1..MaxDuration
  /\ box = NoBox

NextReel == ReelCollect \/ ReelEncode

SpecReel == InitReel /\ [][NextReel]_vars

\* The crop region arithmetic of lines 87-98 on any size and any ratio.
Aspects == {<<ASPECT_W, ASPECT_H>>} \cup ((1..MaxAspect) \X (1..MaxAspect))

InitBox ==
  /\ pc = "box"
  /\ Fresh
  /\ saveExists = TRUE
  /\ saveFiles = EmptyDir
  /\ cropExists = TRUE
  /\ cropFiles = EmptyDir
  /\ aspect_ratio \in Aspects
  /\ antialias = TRUE
  /\ duration = DURATION
  /\ \E w \in 1..MaxDim, h \in 1..MaxDim :
       box = [NoBox EXCEPT !.width = w, !.height = h,
                           !.aw = aspect_ratio[1], !.ah = aspect_ratio[2]]

ComputeBox ==
  /\ pc = "box"
  /\ box' = CropBox(box.width, box.height, aspect_ratio[1], aspect_ratio[2])
  /\ pc' = "boxed"
  /\ UNCHANGED <<stages, uncaught, cropExists, cropFiles, listing, j, opened, failed>>
  /\ UNCHANGED <<fetchVars, reelVars, paramVars>>

NextBox == ComputeBox

SpecBox == InitBox /\ [][NextBox]_vars


\* ================================================================ claims
Range(s) == {s[i] : i \in DOMAIN s}

FetchReturned == pc \in {"crop", "cropping", "assemble", "encode", "done"}

\* The file names of the results 1..m that have a URL, in order
RECURSIVE NamesUpTo(_)
NamesUpTo(m) ==
  IF m = 0 THEN <<>>
  ELSE IF photos[m].src = NoUrl THEN NamesUpTo(m - 1)
  ELSE Append(NamesUpTo(m - 1), FileNameOf(photos[m].id, photos[m].src))

\* The image requests for the results 1..m that have a URL, one each, in order
RECURSIVE RequestsUpTo(_)
RequestsUpTo(m) ==
  IF m = 0 THEN <<>>
  ELSE IF photos[m].src = NoUrl THEN RequestsUpTo(m - 1)
  ELSE Append(RequestsUpTo(m - 1), m)

FailedName == FileNameOf(photos[fetchErr.at].id, photos[fetchErr.at].src)

\* C1 as stated: when the download of result k fails with a network error, the
\* folder holds exactly the files of the results before k, the requests made are
\* the search and one per image up to k, and the call has returned without raising.
C1_ExactlyFirstFiles ==
  fetchErr.at >= 1 =>
    /\ FetchReturned
    /\ uncaught = ""
    /\ DOMAIN saveFiles = Range(NamesUpTo(fetchErr.at - 1))
    /\ requests = <<0>> \o RequestsUpTo(fetchErr.at)

\* C1 as amended: the same, the files of the results before k complete, and the
\* only other file a truncated one for result k, left exactly when the error
\* came while the body was streamed.
C1_HaltsOnNetworkError ==
  fetchErr.at >= 1 =>
    /\ FetchReturned
    /\ uncaught = ""
    /\ written = NamesUpTo(fetchErr.at - 1)
    /\ \A f \in Range(written) : f \in DOMAIN saveFiles /\ saveFiles[f].kind = "image"
    /\ DOMAIN saveFiles \ Range(written) =
         IF fetchErr.kind = "midstream" THEN {FailedName} ELSE {}
    /\ fetchErr.kind = "midstream" => saveFiles[FailedName].kind = "partial"
    /\ requests = <<0>> \o RequestsUpTo(fetchErr.at)

\* C1 witness: the second of three images failed on a connection error, one
\* image before it written and one after it never requested.
C1_Witness ==
  /\ fetchErr = [at |-> 2, kind |-> "conn"]
  /\ Len(photos) = 3
  /\ photos[3].src # NoUrl
  /\ Len(written) = 1
  /\ FetchReturned

\* Reading a file name back: decimal digits, a ".", an extension
IsDecimal(s) ==
  /\ s # <<>>
  /\ \A i \in DOMAIN s : s[i] \in {"0", "1", "2", "3", "4", "5", "6", "7", "8", "9"}
  /\ Len(s) > 1 => s[1] # "0"

RECURSIVE StrToInt(_)
StrToInt(s) ==
  IF s = <<>> THEN 0
  ELSE 10 * StrToInt(SubSeq(s, 1, Len(s) - 1)) + (Ord(s[Len(s)]) - 3)

\* name is "{id}.{ext}" for the photo: its id in decimal, then the dot-free text
\* that follows the last "." of its URL
IsNameFor(name, photo) ==
  \E p \in DOMAIN name :
    LET idpart == SubSeq(name, 1, p - 1)
        ext == SubSeq(name, p + 1, Len(name))
    IN /\ name[p] = "."
       /\ IsDecimal(idpart)
       /\ StrToInt(idpart) = photo.id
       /\ "." \notin Range(ext)
       /\ EndsWith(photo.src, <<".">> \o ext)

\* C2: after a fetch with at least one result and no failure, the folder
\* holds one complete file per result that has a URL, named {id}.{ext}, and no
\* other file.
C2_OneFilePerResult ==
  (FetchReturned /\ fetchErr = NoError /\ Len(photos) >= 1) =>
    LET withUrl == {k \in DOMAIN photos : photos[k].src # NoUrl}
    IN /\ Cardinality(DOMAIN saveFiles) = Cardinality(withUrl)
       /\ \A k \in withUrl : \E f \in DOMAIN saveFiles :
            IsNameFor(f, photos[k]) /\ saveFiles[f].kind = "image"
       /\ \A f \in DOMAIN saveFiles : \E k \in withUrl : IsNameFor(f, photos[k])

\* C2 witness: three results, one of them without a URL, two files written.
C2_Witness ==
  /\ FetchReturned
  /\ fetchErr = NoError
  /\ Len(photos) = 3
  /\ Cardinality(DOMAIN saveFiles) = 2
  /\ \E k \in DOMAIN photos : photos[k].src = NoUrl

\* The names of the crop folders of SpecCrop that the allowlist admits
CropAllowed == {NameJpg, NameJpeg}

\* C3 as stated: once crop has returned, every decodable source image with an
\* allowlisted extension has an output of the same name, 1080 x 1920.
C3_EveryImageCropped ==
  pc = "assemble" =>
    \A f \in DOMAIN saveFiles :
      (f \in CropAllowed /\ saveFiles[f].kind = "image") =>
        /\ f \in DOMAIN cropFiles
        /\ cropFiles[f].w = 1080
        /\ cropFiles[f].h = 1920

\* q is the floor of a / b
IsFloor(q, a, b) == q * b <= a /\ a < (q + 1) * b

\* C4: the crop region lies inside the source image, and it is the full width
\* with height floor(width*ah/aw) unless that exceeds the source height, in which
\* case it is the full height with width floor(height*aw/ah).
C4_RegionInsideSource ==
  box.done =>
    /\ box.target_width <= box.width
    /\ box.target_height <= box.height
    /\ 0 <= box.left2 /\ box.left2 <= box.right2 /\ box.right2 <= 2 * box.width
    /\ 0 <= box.top2 /\ box.top2 <= box.bottom2 /\ box.bottom2 <= 2 * box.height
    /\ \E fh \in 0..(box.width * box.ah) :
         /\ IsFloor(fh, box.width * box.ah, box.aw)
         /\ IF fh > box.height
            THEN /\ box.target_height = box.height
                 /\ IsFloor(box.target_width, box.height * box.aw, box.ah)
            ELSE /\ box.target_width = box.width
                 /\ box.target_height = fh

\* C4 witness: a region that fell back to the full height, narrower than the source.
C4_Witness ==
  /\ box.done
  /\ pc = "boxed"
  /\ (box.width * box.ah) \div box.aw > box.height
  /\ box.target_height = box.height
  /\ box.target_width < box.width
  /\ box.target_width > 0

\* C5: crop returns without raising, having opened every allowlisted file of
\* the folder and no other; the files that raised are exactly the ones that are
\* no image (or all, where PIL has no ANTIALIAS); every other opened file has
\* its output; and at every point of the loop the allowlisted files listed so
\* far have all been opened, whichever of them raised.
C5_FailuresSkipped ==
  /\ uncaught = ""
  /\ pc = "cropping" =>
       opened = {listing[i] : i \in 1..(j - 1)} \cap CropAllowed
  /\ pc = "assemble" =>
       /\ opened = DOMAIN saveFiles \cap CropAllowed
       /\ failed = {f \in opened : saveFiles[f].kind # "image" \/ ~antialias}
       /\ DOMAIN cropFiles = opened \ failed

\* C5 witness: the file listed first raised, a file outside the allowlist came
\* second and was not opened, the file listed third has its output.
C5_Witness ==
  /\ pc = "assemble"
  /\ Len(listing) = 3
  /\ listing[1] \in failed
  /\ listing[2] \notin opened
  /\ listing[3] \in DOMAIN cropFiles

\* C6 as stated: the script never ends on an uncaught error, and it ends having
\* run fetch, crop and assemble in that order.
C6_NoErrorEscapes ==
  /\ uncaught = ""
  /\ pc # "crashed"
  /\ pc = "done" => stages = <<"fetch", "crop", "assemble">>

\* C7: with an empty source folder crop returns without error, the output
\* folder created and empty and no file opened; with an empty cropped folder
\* create_reel returns without error, no clip built and no video written.
C7_EmptyFolders ==
  /\ (pc \in {"assemble", "encode", "done"} /\ DOMAIN saveFiles = {}) =>
       /\ cropExists
       /\ DOMAIN cropFiles = {}
       /\ opened = {}
       /\ uncaught = ""
       /\ pc # "encode"
  /\ (pc = "done" /\ DOMAIN cropFiles = {}) =>
       /\ ~clip.made
       /\ ~video
       /\ uncaught = ""

\* C7 witness: the script ended after all three stages with both folders empty.
C7_Witness ==
  /\ pc = "done"
  /\ DOMAIN saveFiles = {}
  /\ DOMAIN cropFiles = {}
  /\ cropExists
  /\ stages = <<"fetch", "crop", "assemble">>

\* The allowlisted names of the folders of SpecReel, in ascending order of their
\* code points: "10.jpg" < "11.PNG" < "8.jpeg" < "9.JPEG" < "9.png"
ReelOrder == <<NameJpg, NamePngUp, NameJpegLow, NameJpeg, NamePng>>
InCropFolder(f) == f \in DOMAIN cropFiles

\* C8: the images handed to the encoder are the allowlisted files of the
\* folder, each once, in ascending file name order, whatever order the listing
\* came in.
C8_SortedAllowlisted ==
  /\ pc = "encode" => images = SelectSeq(ReelOrder, InCropFolder)
  /\ clip.made => clip.images = SelectSeq(ReelOrder, InCropFolder)

\* C8 witness: a clip of four images from a folder that also holds another file.
C8_Witness ==
  /\ clip.made
  /\ Len(clip.images) = 4
  /\ NameGif \in DOMAIN cropFiles
  /\ NameJpg \in DOMAIN cropFiles
  /\ NameJpeg \in DOMAIN cropFiles

Abs(x) == IF x < 0 THEN -x ELSE x

\* C9: the clip of n images for the duration D has the display rate n/D, each
\* image held D/n seconds; encoded at 24 fps it plays for D seconds within one
\* frame, and every image is on screen for 24*D/n frames within one frame.
C9_EqualSlices ==
  clip.made =>
    LET n == Len(clip.images)
    IN /\ n >= 1
       /\ clip.fps_num * duration = n * clip.fps_den
       /\ Abs(Frames(clip) - ENCODE_FPS * duration) <= 1
       /\ \A i \in 1..n : Abs(n * FramesOf(clip, i) - ENCODE_FPS * duration) <= n

\* C9 witness: five images for 3 seconds, 72 frames that five does not divide.
C9_Witness ==
  /\ clip.made
  /\ Len(clip.images) = 5
  /\ duration = 3
  /\ video

\* C10: the crop region is centred (equal margins left and right, top and
\* bottom) and spans the full width or the full height of the source.
C10_CentredMaximal ==
  box.done =>
    /\ box.left2 = 2 * box.width - box.right2
    /\ box.top2 = 2 * box.height - box.bottom2
    /\ box.target_width = box.width \/ box.target_height = box.height

\* C10 witness: a region with a margin of a whole number of pixels and a half
\* on the left and on the right.
C10_Witness ==
  /\ box.done
  /\ pc = "boxed"
  /\ box.left2 > 1
  /\ box.left2 % 2 = 1
  /\ box.top2 = 0

====
